---- MODULE Spec2Model ----
(***************************************************************************)
(* Model of spotify-oauth-gcp: the OAuth callback handler (app/main.py),   *)
(* the admin endpoints and the Secret Manager adapter                      *)
(* (app/secrets_manager.py).  Each callback invocation is a sequence of    *)
(* steps separated by its outbound calls; several invocations interleave.  *)
(***************************************************************************)
EXTENDS Integers, Sequences, FiniteSets, TLC

VARIABLES env, started, store, requests, cb, resp, onboarded

vars == <<env, started, store, requests, cb, resp, onboarded>>

(* ---------------------------------------------------------------- bounds *)
\* total number of callback requests received over a behaviour
MaxRequests == 3

(* ------------------------------------------------------ python values --- *)
\* Python's None (an unset env variable, an absent parameter, JSON null)
None == "<None>"
\* `not x` for a str-or-None value
Falsy(x) == x = None \/ x = ""
\* dict.get(key, default)
Get(d, key, default) == IF key \in DOMAIN d THEN d[key] ELSE default

Workers == {"w1", "w2"}

(* -------------------------------------------------------- configuration - *)
EnvNames == {"SPOTIFY_CLIENT_ID", "SPOTIFY_CLIENT_SECRET", "SPOTIFY_REDIRECT_URI",
             "APP_URL", "ADMIN_API_KEY", "GCP_PROJECT"}
EnvValue(n) == CASE n = "SPOTIFY_CLIENT_ID" -> "cid"
                 [] n = "SPOTIFY_CLIENT_SECRET" -> "csecret"
                 [] n = "SPOTIFY_REDIRECT_URI" -> "https://app/auth/callback"
                 [] n = "APP_URL" -> "https://app"
                 [] n = "ADMIN_API_KEY" -> "k1"
                 [] n = "GCP_PROJECT" -> "proj"
\* every environment the process can be launched in: each variable set or unset
Environments == {[n \in EnvNames |-> IF n \in S THEN EnvValue(n) ELSE None] : S \in SUBSET EnvNames}

SPOTIFY_SECRET_PREFIX == "spotify1-refresh-"
ADMIN_API_KEY == env["ADMIN_API_KEY"]
GCP_PROJECT == env["GCP_PROJECT"]

\* the module-level check: `if not (A and B and C and D): raise`
RequiredEnvPresent(e) ==
    /\ ~Falsy(e["SPOTIFY_CLIENT_ID"])
    /\ ~Falsy(e["SPOTIFY_CLIENT_SECRET"])
    /\ ~Falsy(e["GCP_PROJECT"])
    /\ ~Falsy(e["SPOTIFY_REDIRECT_URI"])

(* ------------------------------------------------------------- json ----- *)
PayloadKeys == <<"spotify_user_id", "display_name", "refresh_token", "scope", "created_at">>

\* a JSON literal for a str-or-None value
JsonLiteral(v) == IF v = None THEN "null" ELSE "\"" \o v \o "\""
\* the value of a JSON literal
JsonValue(lit) == IF lit = "null" THEN None ELSE SubSeq(lit, 2, Len(lit) - 1)
IsJsonLiteral(lit) ==
    \/ lit = "null"
    \/ Len(lit) >= 2 /\ SubSeq(lit, 1, 1) = "\"" /\ SubSeq(lit, Len(lit), Len(lit)) = "\""

\* json.dumps of the credential dict: the members in insertion order
json_dumps(d) == [i \in 1..Len(PayloadKeys) |-> <<PayloadKeys[i], JsonLiteral(d[PayloadKeys[i]])>>]

\* the text is a JSON object that json.loads accepts
IsJsonObject(text) ==
    /\ Len(text) > 0
    /\ \A i \in 1..Len(text) : Len(text[i]) = 2 /\ IsJsonLiteral(text[i][2])
\* json.loads of an object text: the dict of its members
json_loads(text) ==
    [k \in {text[i][1] : i \in 1..Len(text)} |->
        JsonValue(text[CHOOSE i \in 1..Len(text) : text[i][1] = k /\ \A j \in (i+1)..Len(text) : text[j][1] # k][2])]

(* ------------------------------------------------------ secret store ---- *)
SecretPath(project, secret_id) == "projects/" \o project \o "/secrets/" \o secret_id

\* the secret of that resource name exists in the store
SecretExists(s, name) == \E i \in 1..Len(s) : s[i].name = name
SecretIndex(s, name) == CHOOSE i \in 1..Len(s) : s[i].name = name
\* the versions of a secret, oldest first (empty when the secret is absent)
Versions(s, name) == IF SecretExists(s, name) THEN s[SecretIndex(s, name)].versions ELSE <<>>

\* a secret of the project that this service does not own
ForeignSecret == [name |-> SecretPath("proj", "db-password"), versions |-> <<[data |-> <<"hunter2">>]>>]

\* a prefixed secret whose only version was not written by this service and is not JSON
LegacySecret == [name |-> SecretPath("proj", "spotify1-refresh-legacy"), versions |-> <<[data |-> <<"not json">>]>>]

\* create_secret on a store without that secret: a new secret with no version
create_secret(s, name) == Append(s, [name |-> name, versions |-> <<>>])
\* variant: the secret's content is replaced instead of versioned
add_secret_version_overwrite(s, name, data) ==
    [s EXCEPT ![SecretIndex(s, name)].versions = <<[data |-> data]>>]

\* add_secret_version on an existing secret: the payload becomes its latest version
add_secret_version(s, name, data) ==
    [s EXCEPT ![SecretIndex(s, name)].versions = Append(@, [data |-> data])]

(* --------------------------------------------------- upstream provider -- *)
Missing == "<Missing>"
\* a JSON object with the given members, leaving out those that are Missing
JsonObject(members) ==
    [k \in {m[1] : m \in {members[i] : i \in 1..Len(members)} \ {x \in {members[i] : i \in 1..Len(members)} : x[2] = Missing}}
        |-> (CHOOSE m \in {members[i] : i \in 1..Len(members)} : m[1] = k)[2]]

\* what an upstream HTTP call can produce: a network error or timeout, or a
\* response with a status and a body that is not JSON, JSON but no object, or an object
HttpResult(error, status_code, body, obj) ==
    [error |-> error, status_code |-> status_code, body |-> body, json |-> obj]

TokenObject(a, r, s) == JsonObject(<< <<"access_token", a>>, <<"refresh_token", r>>, <<"scope", s>> >>)
ProfileObject(i, d) == JsonObject(<< <<"id", i>>, <<"display_name", d>> >>)

\* token responses: complete ones (the scope member is optional), and ones
\* that lack the access token, the refresh token (missing or empty) or both
TokenObjects ==
    {TokenObject("AT1", "RT1", s) : s \in {Missing, "user-read-email"}}
    \cup {TokenObject(Missing, "RT1", "user-read-email"), TokenObject("AT1", Missing, "user-read-email"),
          TokenObject("AT1", "", "user-read-email"), TokenObject(Missing, Missing, Missing)}
\* profiles: two users, display_name present, null or missing; and ones without a usable id
ProfileObjects ==
    {ProfileObject(i, d) : i \in {"u789", "u790"}, d \in {Missing, None, "Jane"}}
    \cup {ProfileObject(Missing, "Jane"), ProfileObject("", "Jane"), ProfileObject(Missing, Missing)}

AnyObject == JsonObject(<< <<"error", "invalid_grant">> >>)
\* no call has been made yet
NoResult == HttpResult(FALSE, 0, "none", AnyObject)
FailureResults ==
    {HttpResult(TRUE, 0, "none", AnyObject),
     HttpResult(FALSE, 400, "object", AnyObject),
     HttpResult(FALSE, 200, "invalid", AnyObject),
     HttpResult(FALSE, 200, "array", AnyObject)}
TokenResults == FailureResults \cup {HttpResult(FALSE, st, "object", o) : st \in {200, 201}, o \in TokenObjects}
ProfileResults == FailureResults \cup {HttpResult(FALSE, st, "object", o) : st \in {200, 201}, o \in ProfileObjects}

\* the upstream behaviours of the concurrent specification: the same failures,
\* and complete answers for the two users
RaceTokenResults == FailureResults \cup {HttpResult(FALSE, 200, "object", TokenObject("AT1", "RT1", "user-read-email"))}
RaceProfileResults == FailureResults \cup {HttpResult(FALSE, 200, "object", ProfileObject(i, "Jane")) : i \in {"u789", "u790"}}

(* ------------------------------------------------------- callback ------- *)
NoResponse == [status_code |-> 0, template |-> None, message |-> None,
               display_name |-> None, spotify_user_id |-> None]

\* an invocation: its position, its parameters and locals, the outbound calls it
\* has made, the exceptions the store calls have raised, and its response
IdleCb == [pc |-> "idle", code |-> None, state |-> None, token_res |-> NoResult, access_token |-> None,
           refresh_token |-> None, scope |-> None, me_res |-> NoResult,
           spotify_user_id |-> None, display_name |-> None,
           secret_name |-> None, payload |-> <<>>, calls |-> <<>>, raised |-> <<>>,
           response |-> NoResponse]

ErrorPage(message) == [NoResponse EXCEPT !.status_code = 200, !.template = "error.html", !.message = message]
HttpError(status, detail) == [NoResponse EXCEPT !.status_code = status, !.message = detail]
\* an exception that leaves the handler: the framework answers 500
Unhandled == [NoResponse EXCEPT !.status_code = 500]

\* the admin surface has no response pending
NoAdminResponse == [endpoint |-> None, x_api_key |-> None, spotify_user_id |-> None,
                    failing |-> {}, list_fails |-> FALSE, status_code |-> 0, body |-> <<>>]

Init ==
    /\ env \in Environments
    /\ started = "boot"
    /\ store = <<ForeignSecret, LegacySecret>>
    /\ requests = 0
    /\ cb = [w \in Workers |-> IdleCb]
    /\ resp = NoAdminResponse
    /\ onboarded = [u \in {} |-> <<>>]

\* module import: environment check, then the app object exists
Startup ==
    /\ started = "boot"
    /\ started' = IF RequiredEnvPresent(env) THEN "running" ELSE "failed"
    /\ UNCHANGED <<env, store, requests, cb, resp, onboarded>>

Codes == {None, "", "abc123"}
\* the uuid4().hex[:8] values build_auth_url can draw
Uuids == {"1a2b3c4d", "5e6f7a8b"}
\* the state query parameter: absent, empty, one that build_auth_url generated,
\* or one that it never generated
States == {None, "", "st-1a2b3c4d", "forged"}
\* the redirect carries no state
NoState == {None}

\* main.py 46-58: the authorize URL; its state is the caller's or a fresh one
build_auth_url(state, uuid) ==
    "https://accounts.spotify.com/authorize?response_type=code&state="
        \o (IF Falsy(state) THEN "st-" \o uuid ELSE state)

\* GET /connect: the landing page with the login link
Index ==
    /\ started = "running"
    /\ resp = NoAdminResponse
    /\ \E uuid \in Uuids :
         resp' = [NoAdminResponse EXCEPT !.endpoint = "/connect", !.status_code = 200,
                                         !.body = <<build_auth_url(None, uuid)>>]
    /\ UNCHANGED <<env, started, store, requests, cb, onboarded>>

\* GET /auth/login: the redirect to the authorize URL
Login ==
    /\ started = "running"
    /\ resp = NoAdminResponse
    /\ \E uuid \in Uuids :
         resp' = [NoAdminResponse EXCEPT !.endpoint = "/auth/login", !.status_code = 307,
                                         !.body = <<build_auth_url(None, uuid)>>]
    /\ UNCHANGED <<env, started, store, requests, cb, onboarded>>

\* a browser redirect arrives at GET /auth/callback
Receive(w, states) ==
    /\ started = "running"
    /\ cb[w].pc = "idle"
    /\ requests < MaxRequests
    /\ \E code \in Codes, state \in states :
         cb' = [cb EXCEPT ![w] = [IdleCb EXCEPT !.pc = "start", !.code = code, !.state = state]]
    /\ requests' = requests + 1
    /\ UNCHANGED <<env, started, store, resp, onboarded>>

\* variant: the code check is left out
MissingCode_never(code) == FALSE

\* lines 79-93: reject a request without code, otherwise go on to the exchange
MissingCode(code) == Falsy(code)

\* variant: a request without state is rejected like one without code
AfterStart_state_required(c) ==
    IF MissingCode(c.code) \/ Falsy(c.state)
    THEN [c EXCEPT !.pc = "done", !.response = HttpError(400, "Missing code parameter")]
    ELSE [c EXCEPT !.pc = "exchange"]

\* main.py 79-93: the code check; the state is written to the log and nothing else
AfterStart(c) ==
    IF MissingCode(c.code)
    THEN [c EXCEPT !.pc = "done", !.response = HttpError(400, "Missing code parameter")]
    ELSE [c EXCEPT !.pc = "exchange"]

CallbackStart(w) ==
    /\ cb[w].pc = "start"
    /\ cb' = [cb EXCEPT ![w] = AfterStart(cb[w])]
    /\ UNCHANGED <<env, started, store, requests, resp, onboarded>>

\* lines 95-111: the token exchange and the validation of its response
\* variant: only the access token is required
TokensMissing_access_only(access_token, refresh_token) == Falsy(access_token)

\* line 110: `if not access_token or not refresh_token`
TokensMissing(access_token, refresh_token) == Falsy(access_token) \/ Falsy(refresh_token)

\* variant: the refresh token is read from the access_token member
AfterExchange_access_as_refresh(c, res) ==
    LET called == [c EXCEPT !.calls = Append(@, "token"), !.token_res = res] IN
    IF res.error
    THEN [called EXCEPT !.pc = "done", !.response = ErrorPage("Spotify token exchange failed.")]
    ELSE IF res.status_code # 200
    THEN [called EXCEPT !.pc = "done", !.response = ErrorPage("Failed to exchange code.")]
    ELSE IF res.body # "object"
    THEN [called EXCEPT !.pc = "done", !.response = Unhandled]
    ELSE LET access_token == Get(res.json, "access_token", None)
             refresh_token == Get(res.json, "access_token", None)
             scope == Get(res.json, "scope", None) IN
         IF TokensMissing(access_token, refresh_token)
         THEN [called EXCEPT !.pc = "done", !.access_token = access_token,
                             !.refresh_token = refresh_token, !.scope = scope,
                             !.response = ErrorPage("Missing tokens.")]
         ELSE [called EXCEPT !.pc = "profile", !.access_token = access_token,
                             !.refresh_token = refresh_token, !.scope = scope]

\* main.py 95-111: the token exchange and the validation of its response
AfterExchange(c, res) ==
    LET called == [c EXCEPT !.calls = Append(@, "token"), !.token_res = res] IN
    IF res.error
    THEN [called EXCEPT !.pc = "done", !.response = ErrorPage("Spotify token exchange failed.")]
    ELSE IF res.status_code # 200
    THEN [called EXCEPT !.pc = "done", !.response = ErrorPage("Failed to exchange code.")]
    ELSE IF res.body # "object"
    THEN [called EXCEPT !.pc = "done", !.response = Unhandled]
    ELSE LET access_token == Get(res.json, "access_token", None)
             refresh_token == Get(res.json, "refresh_token", None)
             scope == Get(res.json, "scope", None) IN
         IF TokensMissing(access_token, refresh_token)
         THEN [called EXCEPT !.pc = "done", !.access_token = access_token,
                             !.refresh_token = refresh_token, !.scope = scope,
                             !.response = ErrorPage("Missing tokens.")]
         ELSE [called EXCEPT !.pc = "profile", !.access_token = access_token,
                             !.refresh_token = refresh_token, !.scope = scope]

TokenExchange(w, results) ==
    /\ cb[w].pc = "exchange"
    /\ \E res \in results : cb' = [cb EXCEPT ![w] = AfterExchange(cb[w], res)]
    /\ UNCHANGED <<env, started, store, requests, resp, onboarded>>

\* datetime.utcnow().isoformat(): time has advanced with every request received
utcnow == "T" \o ToString(requests)

\* lines 134-144: the secret name and the serialized credential record
\* variant: the user id is left out of the secret name
SecretName_shared(spotify_user_id) == SPOTIFY_SECRET_PREFIX \o "user"

SecretName(spotify_user_id) == SPOTIFY_SECRET_PREFIX \o spotify_user_id
\* variant: refresh token and scope are stored under each other's key
CredentialRecord_swapped(spotify_user_id, display_name, refresh_token, scope, created_at) ==
    [spotify_user_id |-> spotify_user_id, display_name |-> display_name,
     refresh_token |-> scope, scope |-> refresh_token, created_at |-> created_at]

CredentialRecord(spotify_user_id, display_name, refresh_token, scope, created_at) ==
    [spotify_user_id |-> spotify_user_id, display_name |-> display_name,
     refresh_token |-> refresh_token, scope |-> scope, created_at |-> created_at]

\* lines 113-144: the profile fetch, its validation and the payload assembly
\* variant: `if spotify_user_id is None`, which lets the empty id through
IdMissing_none_only(spotify_user_id) == spotify_user_id = None

\* line 131: `if not spotify_user_id`
IdMissing(spotify_user_id) == Falsy(spotify_user_id)

AfterProfile(c, res, now) ==
    LET called == [c EXCEPT !.calls = Append(@, "profile"), !.me_res = res] IN
    IF res.error
    THEN [called EXCEPT !.pc = "done", !.response = ErrorPage("Failed to fetch Spotify profile.")]
    ELSE IF res.status_code # 200
    THEN [called EXCEPT !.pc = "done", !.response = ErrorPage("Spotify profile error.")]
    ELSE IF res.body # "object"
    THEN [called EXCEPT !.pc = "done", !.response = Unhandled]
    ELSE LET spotify_user_id == Get(res.json, "id", None)
             display_name == Get(res.json, "display_name", "") IN
         IF IdMissing(spotify_user_id)
         THEN [called EXCEPT !.pc = "done", !.spotify_user_id = spotify_user_id,
                             !.display_name = display_name,
                             !.response = ErrorPage("Profile missing ID.")]
         ELSE [called EXCEPT !.pc = "get_secret", !.spotify_user_id = spotify_user_id,
                             !.display_name = display_name,
                             !.secret_name = SecretName(spotify_user_id),
                             !.payload = json_dumps(CredentialRecord(spotify_user_id, display_name,
                                                        c.refresh_token, c.scope, now))]

ProfileFetch(w, results) ==
    /\ cb[w].pc = "profile"
    /\ \E res \in results : cb' = [cb EXCEPT ![w] = AfterProfile(cb[w], res, utcnow)]
    /\ UNCHANGED <<env, started, store, requests, resp, onboarded>>

(* ------------------------------------- create_or_update_secret ---------- *)
\* the resource name create_or_update_secret builds for secret_id
SecretResource(secret_id) == SecretPath(GCP_PROJECT, secret_id)

\* variant: the lookup reports every secret as absent
GetSecretError_always_not_found(s, name, unavailable) ==
    IF unavailable THEN "Unavailable" ELSE "NotFound"

\* the exception get_secret raises, "" when it returns
GetSecretError(s, name, unavailable) ==
    IF unavailable THEN "Unavailable"
    ELSE IF SecretExists(s, name) THEN "" ELSE "NotFound"
\* the exception create_secret raises, "" when it returns
CreateSecretError(s, name, unavailable) ==
    IF unavailable THEN "Unavailable"
    ELSE IF SecretExists(s, name) THEN "AlreadyExists" ELSE ""
\* the exception add_secret_version raises, "" when it returns
AddVersionError(s, name, unavailable) ==
    IF unavailable THEN "Unavailable"
    ELSE IF SecretExists(s, name) THEN "" ELSE "NotFound"

\* variant: the exception is logged and the success page is returned all the same
StorageFailed_swallowed(c, op, exc) ==
    [c EXCEPT !.pc = "done", !.raised = Append(@, <<op, exc>>),
              !.response = [NoResponse EXCEPT !.status_code = 200, !.template = "success.html",
                                              !.display_name = c.display_name,
                                              !.spotify_user_id = c.spotify_user_id]]

\* main.py 148-150: an exception of create_or_update_secret ends the callback
StorageFailed(c, op, exc) ==
    [c EXCEPT !.pc = "done", !.raised = Append(@, <<op, exc>>),
              !.response = ErrorPage("Failed to store credentials.")]

\* variant: a lookup that fails for another reason than not-found is tried again
AfterGetSecret_retry(c, exc) ==
    LET called == [c EXCEPT !.calls = Append(@, "get_secret")] IN
    IF exc = "" THEN [called EXCEPT !.pc = "add_secret_version"]
    ELSE IF exc = "Unavailable" THEN [called EXCEPT !.raised = Append(@, <<"get_secret", exc>>)]
    ELSE [called EXCEPT !.pc = "create_secret", !.raised = Append(@, <<"get_secret", exc>>)]

\* secrets_manager.py 13-15: look the secret up; any exception leads to creation
AfterGetSecret(c, exc) ==
    LET called == [c EXCEPT !.calls = Append(@, "get_secret")] IN
    IF exc = "" THEN [called EXCEPT !.pc = "add_secret_version"]
    ELSE [called EXCEPT !.pc = "create_secret", !.raised = Append(@, <<"get_secret", exc>>)]

GetSecret(w) ==
    /\ cb[w].pc = "get_secret"
    /\ \E unavailable \in BOOLEAN :
         cb' = [cb EXCEPT ![w] = AfterGetSecret(cb[w],
                    GetSecretError(store, SecretResource(cb[w].secret_name), unavailable))]
    /\ UNCHANGED <<env, started, store, requests, resp, onboarded>>

\* secrets_manager.py 16-22: create the secret; an exception is not caught here
AfterCreateSecret(c, exc) ==
    LET called == [c EXCEPT !.calls = Append(@, "create_secret")] IN
    IF exc = "" THEN [called EXCEPT !.pc = "add_secret_version"]
    ELSE StorageFailed(called, "create_secret", exc)

CreateSecret(w) ==
    /\ cb[w].pc = "create_secret"
    /\ \E unavailable \in BOOLEAN :
         LET name == SecretResource(cb[w].secret_name)
             exc == CreateSecretError(store, name, unavailable) IN
         /\ cb' = [cb EXCEPT ![w] = AfterCreateSecret(cb[w], exc)]
         /\ store' = IF exc = "" THEN create_secret(store, name) ELSE store
    /\ UNCHANGED <<env, started, requests, resp, onboarded>>

\* main.py 152-155: the success page
SuccessPage(display_name, spotify_user_id) ==
    [NoResponse EXCEPT !.status_code = 200, !.template = "success.html",
                       !.display_name = display_name, !.spotify_user_id = spotify_user_id]

\* history: one more successful onboarding of that user, with the payload it sent
Onboard(history, spotify_user_id, payload) ==
    [u \in DOMAIN history \cup {spotify_user_id} |->
        IF u = spotify_user_id THEN Append(Get(history, u, <<>>), payload) ELSE history[u]]

\* secrets_manager.py 24-29 and main.py 146-155: append the version and answer
AfterAddVersion(c, exc) ==
    LET called == [c EXCEPT !.calls = Append(@, "add_secret_version")] IN
    IF exc = ""
    THEN [called EXCEPT !.pc = "done", !.response = SuccessPage(c.display_name, c.spotify_user_id)]
    ELSE StorageFailed(called, "add_secret_version", exc)

AddSecretVersion(w) ==
    /\ cb[w].pc = "add_secret_version"
    /\ \E unavailable \in BOOLEAN :
         LET name == SecretResource(cb[w].secret_name)
             exc == AddVersionError(store, name, unavailable) IN
         /\ cb' = [cb EXCEPT ![w] = AfterAddVersion(cb[w], exc)]
         /\ store' = IF exc = "" THEN add_secret_version(store, name, cb[w].payload) ELSE store
         /\ onboarded' = IF cb'[w].response.template = "success.html"
                         THEN Onboard(onboarded, cb[w].spotify_user_id, cb[w].payload) ELSE onboarded
    /\ UNCHANGED <<env, started, requests, resp>>

\* the response has been sent; the worker can take the next request
Respond(w) ==
    /\ cb[w].pc = "done"
    /\ cb' = [cb EXCEPT ![w] = IdleCb]
    /\ UNCHANGED <<env, started, store, requests, resp, onboarded>>

(* -------------------------------------------------- reading the store --- *)
StartsWith(n, prefix) == Len(n) >= Len(prefix) /\ SubSeq(n, 1, Len(prefix)) = prefix
EndsWith(n, suffix) == Len(n) >= Len(suffix) /\ SubSeq(n, Len(n) - Len(suffix) + 1, Len(n)) = suffix

\* name.split("/")[-1]: what follows the last slash
RECURSIVE LastSegmentFrom(_, _)
LastSegmentFrom(name, i) ==
    IF i = 0 THEN name
    ELSE IF SubSeq(name, i, i) = "/" THEN SubSeq(name, i + 1, Len(name))
    ELSE LastSegmentFrom(name, i - 1)
LastSegment(name) == LastSegmentFrom(name, Len(name))

\* variant: the resource names are filtered as they are, without the split
list_spotify_secrets_unsplit(s, prefix) ==
    LET all_secrets == [i \in 1..Len(s) |-> s[i].name]
        HasPrefix(n) == StartsWith(n, prefix) IN
    SelectSeq(all_secrets, HasPrefix)

\* secrets_manager.py 40-43: the ids of the project's secrets that start with prefix
list_spotify_secrets(s, prefix) ==
    LET all_secrets == [i \in 1..Len(s) |-> LastSegment(s[i].name)]
        HasPrefix(n) == StartsWith(n, prefix) IN
    SelectSeq(all_secrets, HasPrefix)

LatestSuffix == "/versions/latest"

\* variant: the first version is read instead of the latest
access_secret_version_first(s, name, unavailable) ==
    LET secret == SubSeq(name, 1, Len(name) - Len(LatestSuffix))
        versions == Versions(s, secret) IN
    IF unavailable \/ ~EndsWith(name, LatestSuffix) \/ versions = <<>> THEN <<>>
    ELSE <<versions[1]>>

\* access_secret_version of ".../versions/latest": <<version>> or <<>> when it raises
access_secret_version(s, name, unavailable) ==
    LET secret == SubSeq(name, 1, Len(name) - Len(LatestSuffix))
        versions == Versions(s, secret) IN
    IF unavailable \/ ~EndsWith(name, LatestSuffix) \/ versions = <<>> THEN <<>>
    ELSE <<versions[Len(versions)]>>

\* the exception access_secret_version raises, "" when it returns
AccessError(s, name, unavailable) ==
    IF unavailable THEN "Unavailable"
    ELSE IF access_secret_version(s, name, unavailable) = <<>> THEN "NotFound" ELSE ""

\* variant: `except NotFound`, which lets the other exceptions through
Caught_not_found_only(exc) == exc = "NotFound"

\* secrets_manager.py 37: `except Exception` catches whatever the try block raises
Caught(exc) == TRUE

\* secrets_manager.py 31-38: the exception that leaves the function ("" for none) and the
\* value it returns, <<dict>> for the parsed latest payload and <<>> for None
get_secret_payload(s, secret_id, unavailable) ==
    LET name == SecretResource(secret_id) \o LatestSuffix
        response == access_secret_version(s, name, unavailable)
        exc == IF response = <<>> THEN AccessError(s, name, unavailable)
               ELSE IF ~IsJsonObject(response[1].data) THEN "JSONDecodeError" ELSE "" IN
    IF exc = "" THEN [raised |-> "", value |-> <<json_loads(response[1].data)>>]
    ELSE IF Caught(exc) THEN [raised |-> "", value |-> <<>>]
    ELSE [raised |-> exc, value |-> <<>>]

\* `if payload:` for a dict-or-None
Truthy(p) == p # <<>> /\ DOMAIN p[1] # {}

(* ------------------------------------------------------ admin surface --- *)
ApiKeys == {None, "k1", "wrong"}

\* main.py 160 and 179: the request is refused
Unauthorized(x_api_key) == x_api_key # ADMIN_API_KEY

AdminResponse(endpoint, x_api_key, status_code, body) ==
    [NoAdminResponse EXCEPT !.endpoint = endpoint, !.x_api_key = x_api_key,
                            !.status_code = status_code, !.body = body]

\* main.py 158-174; failing: the secrets whose read raises in the store
admin_users(s, x_api_key, list_fails, failing) ==
    IF Unauthorized(x_api_key) THEN AdminResponse("/admin/users", x_api_key, 401, <<>>)
    ELSE IF list_fails THEN AdminResponse("/admin/users", x_api_key, 500, <<>>)
    ELSE LET secrets == list_spotify_secrets(s, SPOTIFY_SECRET_PREFIX)
             results == [i \in 1..Len(secrets) |-> get_secret_payload(s, secrets[i], secrets[i] \in failing)]
             payloads == [i \in 1..Len(secrets) |-> results[i].value]
             found == SelectSeq(payloads, Truthy)
             users == [i \in 1..Len(found) |->
                          [spotify_user_id |-> Get(found[i][1], "spotify_user_id", None),
                           display_name |-> Get(found[i][1], "display_name", None)]] IN
         IF \E i \in 1..Len(secrets) : results[i].raised # ""
         THEN AdminResponse("/admin/users", x_api_key, 500, <<>>)
         ELSE AdminResponse("/admin/users", x_api_key, 200, users)

\* main.py 177-187
get_token(s, spotify_user_id, x_api_key, unavailable) ==
    IF Unauthorized(x_api_key) THEN AdminResponse("/internal/get-token", x_api_key, 401, <<>>)
    ELSE LET result == get_secret_payload(s, SPOTIFY_SECRET_PREFIX \o spotify_user_id, unavailable)
             payload == result.value IN
         IF result.raised # "" THEN AdminResponse("/internal/get-token", x_api_key, 500, <<>>)
         ELSE IF ~Truthy(payload) THEN AdminResponse("/internal/get-token", x_api_key, 404, <<>>)
         ELSE AdminResponse("/internal/get-token", x_api_key, 200, payload)

\* the ids of the secrets in the store
SecretIds(s) == {LastSegment(s[i].name) : i \in 1..Len(s)}
UserIds == {"u789", "u790", "u000", "legacy"}

\* a request to GET /admin/users; the response keeps what the store did to its reads
AdminUsers ==
    /\ started = "running"
    /\ resp = NoAdminResponse
    /\ \E x_api_key \in ApiKeys, list_fails \in BOOLEAN,
          failing \in SUBSET {n \in SecretIds(store) : StartsWith(n, SPOTIFY_SECRET_PREFIX)} :
         resp' = [admin_users(store, x_api_key, list_fails, failing)
                     EXCEPT !.failing = failing, !.list_fails = list_fails]
    /\ UNCHANGED <<env, started, store, requests, cb, onboarded>>

\* a request to GET /internal/get-token/{spotify_user_id}
GetToken ==
    /\ started = "running"
    /\ resp = NoAdminResponse
    /\ \E x_api_key \in ApiKeys, spotify_user_id \in UserIds, unavailable \in BOOLEAN :
         resp' = [get_token(store, spotify_user_id, x_api_key, unavailable)
                     EXCEPT !.spotify_user_id = spotify_user_id,
                            !.failing = IF unavailable THEN {SPOTIFY_SECRET_PREFIX \o spotify_user_id} ELSE {}]
    /\ UNCHANGED <<env, started, store, requests, cb, onboarded>>

\* the admin response has been sent
AdminRespond ==
    /\ resp # NoAdminResponse
    /\ resp' = NoAdminResponse
    /\ UNCHANGED <<env, started, store, requests, cb, onboarded>>

\* requests are handled one after the other, for every upstream behaviour
Next ==
    \/ Startup
    \/ \E w \in {"w1"} :
         \/ Receive(w, NoState) \/ CallbackStart(w)
         \/ TokenExchange(w, TokenResults) \/ ProfileFetch(w, ProfileResults)
         \/ GetSecret(w) \/ CreateSecret(w) \/ AddSecretVersion(w) \/ Respond(w)

Spec == Init /\ [][Next]_vars

\* two requests are handled concurrently (two instances of the service)
NextRace ==
    \/ Startup
    \/ \E w \in Workers :
         \/ Receive(w, NoState) \/ CallbackStart(w)
         \/ TokenExchange(w, RaceTokenResults) \/ ProfileFetch(w, RaceProfileResults)
         \/ GetSecret(w) \/ CreateSecret(w) \/ AddSecretVersion(w) \/ Respond(w)

SpecRace == Init /\ [][NextRace]_vars

\* the admin surface reads what the callbacks have written
NextAdmin ==
    \/ Startup
    \/ AdminUsers \/ GetToken \/ AdminRespond
    \/ \E w \in {"w1"} :
         \/ Receive(w, NoState) \/ CallbackStart(w)
         \/ TokenExchange(w, RaceTokenResults) \/ ProfileFetch(w, RaceProfileResults)
         \/ GetSecret(w) \/ CreateSecret(w) \/ AddSecretVersion(w) \/ Respond(w)

SpecAdmin == Init /\ [][NextAdmin]_vars

\* the login pages hand out states, and redirects arrive with any state
NextState ==
    \/ Startup
    \/ Index \/ Login \/ AdminRespond
    \/ \E w \in {"w1"} :
         \/ Receive(w, States) \/ CallbackStart(w)
         \/ TokenExchange(w, RaceTokenResults) \/ ProfileFetch(w, RaceProfileResults)
         \/ GetSecret(w) \/ CreateSecret(w) \/ AddSecretVersion(w) \/ Respond(w)

SpecState == Init /\ [][NextState]_vars
(* ================================================================ claims *)
Range(f) == {f[i] : i \in DOMAIN f}
Last(q) == q[Len(q)]

IsSuccess(r) == r.status_code = 200 /\ r.template = "success.html"
StorageFailure == ErrorPage("Failed to store credentials.")

\* the outcome class of a response
Outcome(r) ==
    CASE r.status_code = 400 -> "missing-code"
      [] r.status_code = 200 /\ r.template = "success.html" -> "success"
      [] r.status_code = 200 /\ r.message \in {"Spotify token exchange failed.", "Failed to exchange code."}
            -> "exchange-failure"
      [] r.status_code = 200 /\ r.message = "Missing tokens." -> "missing-tokens"
      [] r.status_code = 200 /\ r.message \in {"Failed to fetch Spotify profile.", "Spotify profile error."}
            -> "profile-fetch-failure"
      [] r.status_code = 200 /\ r.message = "Profile missing ID." -> "missing-identity"
      [] r.status_code = 200 /\ r.message = "Failed to store credentials." -> "storage-failure"
      [] OTHER -> "unhandled"

\* the upstream answered with status 200 and a JSON object
IsOkObject(res) == ~res.error /\ res.status_code = 200 /\ res.body = "object"
LacksTokens(res) ==
    IsOkObject(res) /\ (Falsy(Get(res.json, "access_token", None)) \/ Falsy(Get(res.json, "refresh_token", None)))
LacksId(res) == IsOkObject(res) /\ Falsy(Get(res.json, "id", None))
TokenOk(res) == IsOkObject(res) /\ ~LacksTokens(res)
ProfileOk(res) == IsOkObject(res) /\ ~LacksId(res)
\* create_or_update_secret was called and none of its store calls failed for good
StorageOk(c) ==
    /\ "add_secret_version" \in Range(c.calls)
    /\ \A i \in 1..Len(c.raised) : c.raised[i][1] = "get_secret"
\* the resource name of a user's secret
UserSecret(spotify_user_id) == SecretPath(GCP_PROJECT, SPOTIFY_SECRET_PREFIX \o spotify_user_id)

\* C1: when two concurrent callbacks for the same new user both find the secret
\* absent and both attempt creation, and no store call fails for another reason
\* than the secret's absence or existence, both end in success and the store
\* holds one secret for the user with two versions.
C1_RaceBothSucceed ==
    \A a \in Workers, b \in Workers :
        ( /\ a # b
          /\ cb[a].pc = "done" /\ cb[b].pc = "done"
          /\ cb[a].secret_name # None /\ cb[a].secret_name = cb[b].secret_name
          /\ cb[a].raised # <<>> /\ cb[a].raised[1] = <<"get_secret", "NotFound">>
          /\ cb[b].raised # <<>> /\ cb[b].raised[1] = <<"get_secret", "NotFound">>
          /\ \A i \in 1..Len(cb[a].raised) : cb[a].raised[i][2] # "Unavailable"
          /\ \A i \in 1..Len(cb[b].raised) : cb[b].raised[i][2] # "Unavailable" )
        => /\ IsSuccess(cb[a].response) /\ IsSuccess(cb[b].response)
           /\ Cardinality({i \in 1..Len(store) : store[i].name = SecretResource(cb[a].secret_name)}) = 1
           /\ Len(Versions(store, SecretResource(cb[a].secret_name))) = 2

\* C2: an admin response to a request whose x-api-key is absent, or differs from
\* the configured admin key, is a 401 without data.
C2_BadKeyUnauthorized ==
    (resp # NoAdminResponse /\ (resp.x_api_key = None \/ resp.x_api_key # ADMIN_API_KEY))
        => (resp.status_code = 401 /\ resp.body = <<>>)

\* C3: a callback that ends in success has appended its payload as a new version
\* in that step, and a storage call that ends without the version appended ends
\* the callback in the storage-failure outcome.
C3_SuccessOnlyIfAppended ==
    [][\A w \in Workers :
          (cb[w].pc \in {"get_secret", "create_secret", "add_secret_version"} /\ cb'[w].pc = "done")
          => LET name == SecretResource(cb[w].secret_name)
                 appended == /\ SecretExists(store, name)
                             /\ store' = add_secret_version(store, name, cb[w].payload)
                             /\ Last(Versions(store', name)).data = cb[w].payload
                             /\ Len(Versions(store', name)) = Len(Versions(store, name)) + 1 IN
             /\ IsSuccess(cb'[w].response) => appended
             /\ ~appended => (cb'[w].response = StorageFailure /\ store' = store)]_vars

C3_Witness ==
    \E w \in Workers :
        /\ cb[w].pc = "done" /\ IsSuccess(cb[w].response) /\ cb[w].raised # <<>>
        /\ Last(Versions(store, SecretResource(cb[w].secret_name))).data = cb[w].payload

\* C4: when exchange, profile fetch and storage all succeed, the latest version
\* of secret prefix + profile id holds the profile id, the exchange response's
\* refresh token and scope, and the success page carries the stored display
\* name and the profile id.
C4_StoredRecordMatchesResponses ==
    \A w \in Workers :
        (cb[w].pc = "done" /\ TokenOk(cb[w].token_res) /\ ProfileOk(cb[w].me_res) /\ StorageOk(cb[w]))
        => LET id == cb[w].me_res.json["id"]
               versions == Versions(store, UserSecret(id)) IN
           /\ IsSuccess(cb[w].response)
           /\ versions # <<>>
           /\ IsJsonObject(Last(versions).data)
           /\ LET record == json_loads(Last(versions).data) IN
                /\ DOMAIN record = Range(PayloadKeys)
                /\ record["spotify_user_id"] = id
                /\ record["refresh_token"] = cb[w].token_res.json["refresh_token"]
                /\ record["scope"] = Get(cb[w].token_res.json, "scope", None)
                /\ cb[w].response.display_name = record["display_name"]
                /\ cb[w].response.display_name = Get(cb[w].me_res.json, "display_name", "")
                /\ cb[w].response.spotify_user_id = id

C4_Witness ==
    \E w \in Workers :
        /\ cb[w].pc = "done" /\ TokenOk(cb[w].token_res) /\ ProfileOk(cb[w].me_res) /\ StorageOk(cb[w])
        /\ "scope" \in DOMAIN cb[w].token_res.json
        /\ Get(cb[w].me_res.json, "display_name", None) = "Jane"
        /\ Len(Versions(store, UserSecret(cb[w].me_res.json["id"]))) = 2

\* C5: after n >= 1 successful callback flows for a user, the store holds exactly
\* one secret named prefix + id, it has exactly n versions, and
\* list_spotify_secrets(prefix) reports that name exactly once.
C5_OneSecretNVersions ==
    \A u \in DOMAIN onboarded :
        LET listed == list_spotify_secrets(store, SPOTIFY_SECRET_PREFIX) IN
        /\ Len(onboarded[u]) >= 1
        /\ Cardinality({i \in 1..Len(store) : store[i].name = UserSecret(u)}) = 1
        /\ Len(Versions(store, UserSecret(u))) = Len(onboarded[u])
        /\ Cardinality({i \in 1..Len(listed) : listed[i] = SPOTIFY_SECRET_PREFIX \o u}) = 1

C5_Witness ==
    \E u \in DOMAIN onboarded, v \in DOMAIN onboarded :
        /\ u # v /\ Len(onboarded[u]) = 2 /\ Len(onboarded[v]) = 1
        /\ Len(Versions(store, UserSecret(u))) = 2

\* C6: a callback without code answers 400 having made no outbound call, and
\* the step that rejects it leaves the store unchanged.
C6_MissingCodeRejected ==
    /\ [](\A w \in Workers :
            (cb[w].pc \notin {"idle", "start"} /\ Falsy(cb[w].code))
            => /\ cb[w].pc = "done"
               /\ cb[w].response.status_code = 400
               /\ cb[w].calls = <<>>)
    /\ [][\A w \in Workers :
            (cb[w].pc = "start" /\ Falsy(cb[w].code) /\ cb'[w] # cb[w])
            => (cb'[w].pc = "done" /\ cb'[w].calls = <<>> /\ store' = store)]_vars

C6_Witness ==
    \E w \in Workers :
        cb[w].pc = "done" /\ cb[w].code = None /\ cb[w].response = HttpError(400, "Missing code parameter")

\* C7: a 200 token response without refresh_token or without access_token ends
\* the callback in the missing-tokens outcome; the token call is its only
\* outbound call and the store is left unchanged.
C7_MissingTokens ==
    /\ [](\A w \in Workers :
            LacksTokens(cb[w].token_res)
            => /\ cb[w].pc = "done"
               /\ Outcome(cb[w].response) = "missing-tokens"
               /\ cb[w].calls = <<"token">>)
    /\ [][\A w \in Workers :
            (cb[w].pc = "exchange" /\ LacksTokens(cb'[w].token_res)) => store' = store]_vars

C7_Witness ==
    \E w \in Workers :
        /\ cb[w].pc = "done" /\ IsOkObject(cb[w].token_res)
        /\ "access_token" \in DOMAIN cb[w].token_res.json
        /\ "refresh_token" \notin DOMAIN cb[w].token_res.json
        /\ cb[w].response = ErrorPage("Missing tokens.")

\* C8: a 200 profile response without a non-empty id ends the callback in the
\* missing-identity outcome; no store call is made and the store is left unchanged.
C8_MissingIdentity ==
    /\ [](\A w \in Workers :
            LacksId(cb[w].me_res)
            => /\ cb[w].pc = "done"
               /\ Outcome(cb[w].response) = "missing-identity"
               /\ cb[w].calls = <<"token", "profile">>)
    /\ [][\A w \in Workers :
            (cb[w].pc = "profile" /\ LacksId(cb'[w].me_res)) => store' = store]_vars

C8_Witness ==
    \E w \in Workers :
        /\ cb[w].pc = "done" /\ IsOkObject(cb[w].me_res)
        /\ Get(cb[w].me_res.json, "id", None) = ""
        /\ cb[w].response = ErrorPage("Profile missing ID.")

\* C9: an invocation's outbound calls are made in the order token, profile,
\* get_secret, create_secret, add_secret_version, each at most once; the profile
\* call follows a 200 token response with both tokens, the store calls follow a
\* 200 profile response with an id, and once the invocation has its response no
\* further call is made.
CallOrder == <<"token", "profile", "get_secret", "create_secret", "add_secret_version">>
CallPosition(call) == CHOOSE i \in 1..Len(CallOrder) : CallOrder[i] = call
C9_OrderedNoRetry ==
    /\ [](\A w \in Workers :
            LET calls == cb[w].calls IN
            /\ \A i \in 1..Len(calls) : calls[i] \in Range(CallOrder)
            /\ \A i \in 1..Len(calls), j \in 1..Len(calls) :
                   i < j => CallPosition(calls[i]) < CallPosition(calls[j])
            /\ calls # <<>> => calls[1] = "token"
            /\ Len(calls) >= 2 => (calls[2] = "profile" /\ TokenOk(cb[w].token_res))
            /\ Len(calls) >= 3 => (calls[3] = "get_secret" /\ ProfileOk(cb[w].me_res))
            /\ (cb[w].pc = "done" /\ ~IsSuccess(cb[w].response) /\ calls # <<>>)
                   => Last(calls) # "add_secret_version" \/ cb[w].response = StorageFailure)
    /\ [][\A w \in Workers :
            cb[w].pc = "done" => (cb'[w] = cb[w] \/ cb'[w] = IdleCb)]_vars

C9_Witness ==
    \E w \in Workers : cb[w].pc = "done" /\ cb[w].calls = CallOrder /\ IsSuccess(cb[w].response)

\* C10: a callback that carries a code ends in one of the outcomes
\* exchange-failure, missing-tokens, profile-fetch-failure, missing-identity,
\* storage-failure or success.
C10_AlwaysAnOutcome ==
    \A w \in Workers :
        (cb[w].pc = "done" /\ ~Falsy(cb[w].code))
        => Outcome(cb[w].response) \in {"exchange-failure", "missing-tokens", "profile-fetch-failure",
                                        "missing-identity", "storage-failure", "success"}

\* an admin request is being answered in this step
Answers(endpoint) == resp = NoAdminResponse /\ resp'.endpoint = endpoint /\ ~Unauthorized(resp'.x_api_key)
\* the latest payload of the secret can be read and parsed
Retrievable(s, secret_id, failing) ==
    /\ secret_id \notin failing
    /\ Versions(s, SecretPath(GCP_PROJECT, secret_id)) # <<>>
    /\ IsJsonObject(Last(Versions(s, SecretPath(GCP_PROJECT, secret_id))).data)

\* C11: get_secret_payload never raises to its caller and leaves the store
\* unchanged: get-token answers 404 (the payload is None), never 500, for a
\* secret that was never created, has no version, has a payload that is not
\* JSON, or whose read fails in the store; the listing never fails on a payload.
C11_PayloadReadNeverRaises ==
    [][/\ Answers("/internal/get-token")
          => /\ store' = store
             /\ resp'.status_code \in {200, 404}
             /\ ~Retrievable(store, SPOTIFY_SECRET_PREFIX \o resp'.spotify_user_id, resp'.failing)
                    => (resp'.status_code = 404 /\ resp'.body = <<>>)
       /\ (Answers("/admin/users") /\ ~resp'.list_fails)
          => (store' = store /\ resp'.status_code = 200)]_vars

C11_Witness ==
    /\ resp.endpoint = "/internal/get-token" /\ ~Unauthorized(resp.x_api_key)
    /\ resp.spotify_user_id = "legacy" /\ resp.failing = {}
    /\ resp.status_code = 404

\* C12: the process runs only if client id, client secret, redirect URI, app
\* URL, admin key and project id are all set.
C12_StartsOnlyConfigured ==
    started = "running" => \A n \in EnvNames : ~Falsy(env[n])

\* C13: no step removes or rewrites a secret or a version, each version
\* sequence only grows at its end, and the latest version of prefix + id is the
\* payload of the last successful onboarding append for that user.
C13_AppendOnlyLatestWins ==
    /\ [][/\ Len(store') >= Len(store)
          /\ \A i \in 1..Len(store) :
                /\ store'[i].name = store[i].name
                /\ Len(store'[i].versions) >= Len(store[i].versions)
                /\ SubSeq(store'[i].versions, 1, Len(store[i].versions)) = store[i].versions]_vars
    /\ [](\A u \in DOMAIN onboarded :
            /\ Versions(store, UserSecret(u)) # <<>>
            /\ Last(Versions(store, UserSecret(u))).data = Last(onboarded[u]))

C13_Witness ==
    \E u \in DOMAIN onboarded :
        /\ Len(onboarded[u]) = 2 /\ onboarded[u][1] # onboarded[u][2]
        /\ Len(Versions(store, UserSecret(u))) = 2
        /\ Versions(store, UserSecret(u))[1].data = onboarded[u][1]
        /\ Versions(store, UserSecret(u))[2].data = onboarded[u][2]
        /\ \E w \in Workers : cb[w].pc = "add_secret_version"

\* the access tokens the provider hands out
AccessTokens == {Get(o, "access_token", None) : o \in TokenObjects} \ {None}
\* the secrets this service has created
OwnSecrets == {i \in 1..Len(store) : store[i] \notin {ForeignSecret, LegacySecret}}

\* C14: every version of a secret written by the callback is a JSON object with
\* exactly the members spotify_user_id, display_name, refresh_token, scope and
\* created_at, and none of its values is an access token.
C14_AccessTokenNotStored ==
    \A i \in OwnSecrets : \A j \in 1..Len(store[i].versions) :
        LET data == store[i].versions[j].data IN
        /\ IsJsonObject(data)
        /\ Len(data) = Len(PayloadKeys)
        /\ DOMAIN json_loads(data) = Range(PayloadKeys)
        /\ \A k \in 1..Len(data) : JsonValue(data[k][2]) \notin AccessTokens

C14_Witness ==
    \E w \in Workers, i \in OwnSecrets :
        /\ cb[w].pc = "done" /\ IsSuccess(cb[w].response) /\ cb[w].access_token \in AccessTokens
        /\ store[i].name = SecretResource(cb[w].secret_name)
        /\ Len(store[i].versions) = 2

\* C15: with the admin key, get-token answers 200 with the parsed latest
\* version of prefix + id when that payload can be read (in particular for a
\* user onboarded at least once, whose answer re-serialises to the payload of
\* the last onboarding), and 404 without data otherwise (no secret, no version,
\* not JSON, or the read fails); the payload returned is the requested user's.
C15_GetTokenLatestPayload ==
    [][Answers("/internal/get-token")
       => LET id == resp'.spotify_user_id
              versions == Versions(store, UserSecret(id)) IN
          /\ IF Retrievable(store, SPOTIFY_SECRET_PREFIX \o id, resp'.failing)
             THEN /\ resp'.status_code = 200
                  /\ resp'.body = <<json_loads(Last(versions).data)>>
             ELSE resp'.status_code = 404 /\ resp'.body = <<>>
          /\ (id \in DOMAIN onboarded /\ resp'.failing = {})
             => /\ resp'.status_code = 200
                /\ json_dumps(resp'.body[1]) = Last(onboarded[id])
                /\ resp'.body[1]["spotify_user_id"] = id
          /\ resp'.status_code = 200
             => \A u \in DOMAIN onboarded \ {id} :
                    resp'.body[1] # json_loads(Last(onboarded[u]))]_vars

C15_Witness ==
    /\ resp.endpoint = "/internal/get-token" /\ ~Unauthorized(resp.x_api_key)
    /\ resp.status_code = 200
    /\ resp.spotify_user_id \in DOMAIN onboarded
    /\ Len(onboarded[resp.spotify_user_id]) = 2
    /\ onboarded[resp.spotify_user_id][1] # onboarded[resp.spotify_user_id][2]
    /\ json_dumps(resp.body[1]) = onboarded[resp.spotify_user_id][2]
    /\ DOMAIN onboarded # {resp.spotify_user_id}

\* the prefixed secrets whose latest payload can be read and parsed
Listable(s, failing) ==
    {n \in SecretIds(s) : StartsWith(n, SPOTIFY_SECRET_PREFIX) /\ Retrievable(s, n, failing)}
\* the pair the listing shows for a secret
UserPair(s, n) ==
    LET record == json_loads(Last(Versions(s, SecretPath(GCP_PROJECT, n))).data) IN
    [spotify_user_id |-> Get(record, "spotify_user_id", None),
     display_name |-> Get(record, "display_name", None)]

\* C16: with the admin key and the listing of secrets available, /admin/users
\* answers 200 with exactly one pair, taken from the latest version, for each
\* prefixed secret whose latest payload can be read and parsed, and nothing for
\* the others (no version, not JSON, read fails).
C16_AdminUsersListsRetrievable ==
    [][(Answers("/admin/users") /\ ~resp'.list_fails)
       => /\ resp'.status_code = 200
          /\ Len(resp'.body) = Cardinality(Listable(store, resp'.failing))
          /\ \A n \in Listable(store, resp'.failing) :
                Cardinality({i \in 1..Len(resp'.body) : resp'.body[i] = UserPair(store, n)}) = 1]_vars

C16_Witness ==
    /\ resp.endpoint = "/admin/users" /\ ~Unauthorized(resp.x_api_key)
    /\ resp.status_code = 200 /\ resp.failing = {}
    /\ Len(resp.body) = 1
    /\ \E i \in OwnSecrets : store[i].versions = <<>>
    /\ \E i \in OwnSecrets : Len(store[i].versions) = 2
    /\ Len(store) = 4

\* C17: create_secret is attempted only when the named secret is absent, and
\* for a secret that exists a call in which add_secret_version is available
\* appends a version and does not raise, whatever the lookup did: a storage
\* failure comes from add_secret_version, or from creating an absent secret,
\* never from a creation attempted for a secret that exists.
C17_CreateOnlyWhenAbsent ==
    \A w \in Workers :
        /\ cb[w].pc = "create_secret" => ~SecretExists(store, SecretResource(cb[w].secret_name))
        /\ (cb[w].pc = "done" /\ "get_secret" \in Range(cb[w].calls)
              /\ "add_secret_version" \notin {cb[w].raised[i][1] : i \in 1..Len(cb[w].raised)})
           => \/ IsSuccess(cb[w].response)
              \/ <<"create_secret", "Unavailable">> \in Range(cb[w].raised)

\* C18: the display_name of every stored credential record and of every
\* success page is a string, the empty string when the profile has no display
\* name (the member is missing or null).
C18_DisplayNameIsString ==
    /\ \A i \in OwnSecrets : \A j \in 1..Len(store[i].versions) :
          IsJsonObject(store[i].versions[j].data)
          => Get(json_loads(store[i].versions[j].data), "display_name", None) # None
    /\ \A w \in Workers :
          (cb[w].pc = "done" /\ IsSuccess(cb[w].response))
          => /\ cb[w].response.display_name # None
             /\ Get(cb[w].me_res.json, "display_name", None) = None
                => cb[w].response.display_name = ""

\* C20: a secret left without version by a storage failure is recoverable: a
\* later callback whose lookup of the existing secret does not fail skips the
\* creation, and when its append does not fail either it ends in success with
\* its payload as the first version, which get_secret_payload then returns.
C20_ZeroVersionSecretRecovers ==
    [][\A w \in Workers :
          LET name == SecretResource(cb[w].secret_name)
              Unavailable(c) == "Unavailable" \in {c.raised[i][2] : i \in 1..Len(c.raised)} IN
          /\ (cb[w].pc = "get_secret" /\ cb'[w] # cb[w] /\ SecretExists(store, name)
                /\ ~Unavailable(cb'[w]))
             => cb'[w].pc = "add_secret_version" /\ cb'[w].raised = <<>> /\ store' = store
          /\ (cb[w].pc = "add_secret_version" /\ cb'[w] # cb[w] /\ cb[w].raised = <<>>
                /\ Versions(store, name) = <<>> /\ ~Unavailable(cb'[w]))
             => /\ IsSuccess(cb'[w].response)
                /\ "create_secret" \notin Range(cb'[w].calls)
                /\ Versions(store', name) = <<[data |-> cb[w].payload]>>
                /\ get_secret_payload(store', cb[w].secret_name, FALSE)
                     = [raised |-> "", value |-> <<json_loads(cb[w].payload)>>]]_vars

C20_Witness ==
    \E w \in Workers :
        /\ cb[w].pc = "done" /\ IsSuccess(cb[w].response)
        /\ cb[w].calls = <<"token", "profile", "get_secret", "add_secret_version">>
        /\ Versions(store, SecretResource(cb[w].secret_name)) = <<[data |-> cb[w].payload]>>
        /\ onboarded[cb[w].spotify_user_id] = <<cb[w].payload>>

\* an invocation as it would be had it been called with state s
WithState(c, s) == [c EXCEPT !.state = s]
\* the exception the store call of a step raised, "" when it returned
RaisedBy(c, d) == IF Len(d.raised) > Len(c.raised) THEN Last(d.raised)[2] ELSE ""
\* the text of every stored version and of every secret name
StoredValues ==
    {store[i].name : i \in 1..Len(store)}
    \cup UNION {{JsonValue(store[i].versions[j].data[k][2]) : k \in 1..Len(store[i].versions[j].data)}
                    : <<i, j>> \in {p \in (1..Len(store)) \X (1..MaxRequests) :
                                        p[1] \in OwnSecrets /\ p[2] <= Len(store[p[1]].versions)}}

\* C19: the state parameter is not verified. Every step of a callback does, for
\* the same upstream and store responses, to an invocation that differs only in
\* its state exactly what it does to this one, to the invocation and to the
\* store, so two such invocations end in the same outcome and effect; the login
\* pages leave callbacks and store alone, and the store holds no state value.
C19_StateNotVerified ==
    /\ [][\A w \in Workers, s \in States :
             LET c == cb[w]
                 d == cb'[w]
                 twin == WithState(c, s)
                 exc == RaisedBy(c, d)
                 name == SecretResource(twin.secret_name) IN
             (d # c /\ c.pc # "idle")
             => /\ c.pc = "start" => WithState(d, s) = AfterStart(twin)
                /\ c.pc = "exchange" => WithState(d, s) = AfterExchange(twin, d.token_res)
                /\ c.pc = "profile" => WithState(d, s) = AfterProfile(twin, d.me_res, utcnow)
                /\ c.pc = "get_secret"
                   => WithState(d, s) = AfterGetSecret(twin, exc) /\ store' = store
                /\ c.pc = "create_secret"
                   => /\ WithState(d, s) = AfterCreateSecret(twin, exc)
                      /\ store' = IF exc = "" THEN create_secret(store, name) ELSE store
                /\ c.pc = "add_secret_version"
                   => /\ WithState(d, s) = AfterAddVersion(twin, exc)
                      /\ store' = IF exc = "" THEN add_secret_version(store, name, twin.payload)
                                  ELSE store
                /\ c.pc = "done" => d = IdleCb]_vars
    /\ [][resp' # resp => (cb' = cb /\ store' = store /\ onboarded' = onboarded)]_vars
    /\ [](StoredValues \cap ((States \cup {"st-" \o u : u \in Uuids}) \ {None, ""}) = {})

C19_Witness ==
    \E w \in Workers :
        /\ cb[w].pc = "done" /\ IsSuccess(cb[w].response) /\ cb[w].state = "forged"
        /\ resp.endpoint = "/auth/login"
        /\ onboarded[cb[w].spotify_user_id] = <<cb[w].payload>>

====
